---- MODULE Spec2Model ----
(***************************************************************************)
(* Model of the asynchronous notification subsystem of the event ticketing *)
(* backend: the Redis-backed OTP store (OTPService) and the Redis-list     *)
(* email queue with its worker loop (EmailQueueService, EmailWorker).      *)
(***************************************************************************)
EXTENDS Integers, Sequences, FiniteSets, TLC

(***************************************************************************)
(* Part 1.  OTP store: OTPService over Redis string keys with a TTL.       *)
(* Time is counted in minutes; the clock advances TickMinutes at a time.   *)
(***************************************************************************)

\* OTPExpiryTime = 10 * time.Minute
OTPExpiryTime == 10

\* "OTP expires in 10 minutes": the documented life of an issued code
DocOTPMinutes == 10

\* granularity of the OTP clock, and the number of swallowed or reported
\* store failures a run may contain
TickMinutes == 5
MaxOTPStoreErrors == 1

\* GenerateOTP(6): the number of digits every caller asks for
OTPDigits == 6

\* the largest number of digits asked of GenerateOTP, and the number of draws
\* of r.Intn taken from each end of its range
MaxDigits == 8
MaxDraw == 8

Identifiers == {"alice", "bob"}
OTPTypes == {"password_reset"}
Codes == {"123456", "654321"}
OTPClients == {"c1", "c2"}

\* key := fmt.Sprintf("%s:%s", otpType, identifier)
OTPKey(identifier, otpType) == otpType \o ":" \o identifier

\* identifiers and types as the API takes them: any string that is not
\* empty, a ":" included
ScopeIdentifiers == {"bob", "alice:bob"}
ScopeTypes == {"2fa", "2fa:alice"}
ScopePairs == ScopeIdentifiers \X ScopeTypes

\* the requests GenerateAndSendOTP is called with: the identifier may be
\* empty, and the type is any string ("payment" is an OTP type with no case in
\* the switch)
SendIdentifiers == {"", "bob"}
SendTypes == {"2fa", "phone_verification", "payment"}

\* the types GenerateAndSendOTP queues an email for
EmailedTypes == {"registration", "password_reset", "2fa"}

OTPKeys ==
  {OTPKey(i, t) : i \in Identifiers, t \in OTPTypes}
    \cup {OTPKey(p[1], p[2]) : p \in ScopePairs}
    \cup {OTPKey(i, t) : i \in SendIdentifiers \ {""}, t \in SendTypes}

\* a key that is not in the store
NoOTP == [code |-> "nil", ttl |-> 0]

VARIABLES
  otpStore,     \* Redis: key -> [code, ttl]; an entry with ttl = 0 has expired
  otpPc,        \* per client: "idle", or "del" between VerifyOTP's Get and Del
  otpCall,      \* per client: the VerifyOTP call in flight
  otpRet,       \* what the call that returned last has observed and returned
  otpErrs,      \* number of store failures so far
  issued,       \* history: per key, the code last saved and not yet used up
  validFor,     \* history: per key, valid verdicts since the last save
  overlap,      \* history: some call ran while another call was in flight
  invalidated,  \* history: the keys invalidated and not saved since
  resets,       \* history: per identifier, password changes since the last save
  gen           \* the last GenerateOTP call: its argument, its draw and its result

otpVars == <<otpStore, otpPc, otpCall, otpRet, otpErrs, issued, validFor, overlap,
            invalidated, resets, gen>>

VARIABLES
  queues,       \* Redis lists: queue name -> jobs, head (left) first
  processing,   \* Redis keys processing:email:<id>: id -> TTL set, 0 if absent
  results,      \* Redis keys results:email:<id>
  wpc,          \* per worker: where it is in ProcessEmailQueue
  wjob,         \* per worker: the job it holds
  wqueue,       \* per worker: the queue its job was popped from
  wresult,      \* per worker: jobResult, as processEmailJob returned it
  wake,         \* per worker: seconds left of the pause after an error
  running,      \* EmailWorker.running
  stopCh,       \* EmailWorker.stopCh: "open" or "closed"
  stopPc,       \* Stop: "idle", or "wait" while it holds mu in wg.Wait()
  afterStop,    \* history: per worker, BRPops begun after stopCh was closed
  wg,           \* EmailWorker.wg: goroutines launched and not yet returned
  nextId,       \* the next job id to hand out
  faults,       \* store failures the run may still contain
  accepted,     \* history: ids whose first QueueEmail returned nil
  meta,         \* history: the fields each accepted job was enqueued with
  early,        \* history: ids accepted, and due, before the first poll
  polled,       \* history: some worker has called BRPop
  popped,       \* history: ids a BRPop has returned
  attempts,     \* history: per id, times handed to processEmailJob
  sent,         \* history: ids with a successful send
  tooEarly,     \* history: a job was handed over before its processAfter
  retryEarly    \* history: a retry was handed over before its backoff ran out

qVars == <<queues, processing, results, wpc, wjob, wqueue, wresult, wake, running,
          stopCh, stopPc, afterStop, wg, nextId,
           faults, accepted, meta, early, polled, popped, attempts, sent,
           tooEarly, retryEarly>>

vars == <<otpStore, otpPc, otpCall, otpRet, otpErrs, issued, validFor, overlap, invalidated, resets,
          gen,
          queues, processing, results, wpc, wjob, wqueue, wresult, wake, running,
          stopCh, stopPc, afterStop, wg, nextId,
          faults, accepted, meta, early, polled, popped, attempts, sent,
          tooEarly, retryEarly>>

\* redis GET: an expired key reads as redis.Nil, like a key that was never set
OTPLiveIgnoringTTL(e) == e.code # "nil"

OTPLive(e) == e.code # "nil" /\ e.ttl > 0

\* redis SET key value EX ttl
RedisSet(store, key, code, ttl) == [store EXCEPT ![key] = [code |-> code, ttl |-> ttl]]

\* redis DEL key
RedisDelNothing(store, key) == store

RedisDel(store, key) == [store EXCEPT ![key] = NoOTP]

\* the passage of d minutes over one entry
Age(e, d) == IF e.ttl > d THEN [e EXCEPT !.ttl = e.ttl - d] ELSE [e EXCEPT !.ttl = 0]

\* AuthService.VerifyOTP: what the caller of the API is told
AuthVerifyOTP(outcome) ==
  CASE outcome = "error" -> "error verifying OTP"
    [] outcome = "invalid" -> "Invalid or expired OTP"
    [] OTHER -> "nil"

NoIssue == [code |-> "nil", ttl |-> 0, prev |-> "nil"]

IssueLive(k) == issued[k].code # "nil" /\ issued[k].ttl > 0

NoRet == [op |-> "none", outcome |-> "none", match |-> FALSE, view |-> "none",
          ow |-> "none", del |-> FALSE, gone |-> FALSE, fail |-> "none", inv |-> FALSE]

NoCall == [key |-> "nil", code |-> "nil", match |-> FALSE, view |-> "none",
           ow |-> "none", stale |-> FALSE]

Others(c) == \E d \in OTPClients \ {c} : otpPc[d] = "del"

\* the calls in flight on a key have read a code that a save or an
\* invalidation has since replaced
Outdate(calls, key) ==
  [c \in OTPClients |-> IF calls[c].key = key THEN [calls[c] EXCEPT !.stale = TRUE]
                        ELSE calls[c]]

\* Helper function to calculate powers of 10
RECURSIVE pow10(_)
pow10(n) == IF n <= 0 THEN 1 ELSE 10 * pow10(n - 1)

DecimalChars == <<"0", "1", "2", "3", "4", "5", "6", "7", "8", "9">>

\* strconv.Itoa: the decimal characters of i, most significant first
RECURSIVE Itoa(_)
Itoa(i) ==
  IF i < 0 THEN <<"-">> \o Itoa(0 - i)
  ELSE IF i < 10 THEN <<DecimalChars[i + 1]>>
  ELSE Itoa(i \div 10) \o <<DecimalChars[(i % 10) + 1]>>

\* the number a string of decimal characters denotes
RECURSIVE Atoi(_)
Atoi(str) ==
  IF str = <<>> THEN 0
  ELSE 10 * Atoi(SubSeq(str, 1, Len(str) - 1))
         + ((CHOOSE d \in 1..10 : DecimalChars[d] = str[Len(str)]) - 1)

\* min := int(pow10(digits - 1))
OTPMinZero(digits) == 0
OTPMin(digits) == pow10(digits - 1)

\* max := int(pow10(digits) - 1)
OTPMax(digits) == pow10(digits) - 1

\* r.Intn(n) returns a number in [0, n): the MaxDraw smallest and the MaxDraw
\* largest of them
Intn(n) == (0..((IF n < MaxDraw THEN n ELSE MaxDraw) - 1))
             \cup ((IF n < MaxDraw THEN 0 ELSE n - MaxDraw)..(n - 1))

\* no call of GenerateOTP yet
NoGen == [digits |-> 0, draw |-> 0, otp |-> <<>>]

\* GenerateOTP generates a random n-digit OTP
GenerateOTP(digits) ==
  /\ \E draw \in Intn(OTPMax(digits) - OTPMin(digits) + 1) :
       gen' = [digits |-> digits, draw |-> draw, otp |-> Itoa(draw + OTPMin(digits))]
  /\ UNCHANGED <<otpStore, otpPc, otpCall, otpRet, otpErrs, issued, validFor, overlap,
                 invalidated, resets>>
  /\ UNCHANGED qVars

OTPInit ==
  /\ gen = NoGen
  /\ otpStore = [k \in OTPKeys |-> NoOTP]
  /\ otpPc = [c \in OTPClients |-> "idle"]
  /\ otpCall = [c \in OTPClients |-> NoCall]
  /\ otpRet = NoRet
  /\ otpErrs = 0
  /\ issued = [k \in OTPKeys |-> NoIssue]
  /\ validFor = [k \in OTPKeys |-> 0]
  /\ overlap = FALSE
  /\ invalidated = {}
  /\ resets = [i \in Identifiers |-> 0]

\* OTPService.SaveOTP
SaveOTP(c, identifier, otpType, otp) ==
  LET key == OTPKey(identifier, otpType) IN
  /\ UNCHANGED <<qVars, gen>>
  /\ otpPc[c] = "idle"
  /\ overlap' = (overlap \/ Others(c))
  /\ \/ /\ otpStore' = RedisSet(otpStore, key, otp, OTPExpiryTime)
        /\ issued' = [issued EXCEPT ![key] =
              [code |-> otp, ttl |-> DocOTPMinutes,
               prev |-> IF IssueLive(key) /\ issued[key].code # otp
                        THEN issued[key].code ELSE "nil"]]
        /\ validFor' = [validFor EXCEPT ![key] = 0]
        /\ otpCall' = Outdate(otpCall, key)
        /\ otpRet' = [NoRet EXCEPT !.op = "save", !.outcome = "ok"]
        /\ invalidated' = invalidated \ {key}
        /\ resets' = IF otpType = "password_reset"
                       THEN [resets EXCEPT ![identifier] = 0] ELSE resets
        /\ UNCHANGED otpErrs
     \/ /\ otpErrs < MaxOTPStoreErrors
        /\ otpErrs' = otpErrs + 1
        /\ otpRet' = [NoRet EXCEPT !.op = "save", !.outcome = "error", !.fail = "set"]
        /\ UNCHANGED <<otpStore, issued, validFor, otpCall, invalidated, resets>>
  /\ UNCHANGED otpPc

\* what of the issued code a submitted code is: the code that overwrote a
\* live one ("new"), the overwritten one ("old"), or neither
Overwrite(key, otp) ==
  IF ~IssueLive(key) \/ issued[key].prev = "nil" THEN "none"
  ELSE IF otp = issued[key].code THEN "new"
  ELSE IF otp = issued[key].prev THEN "old"
  ELSE "none"

\* what the store physically holds under a key, against a submitted code
\* VerifyOTP: "if err != nil": redis.Nil is (false, nil), any other error is
\* returned
OnGetErrorInvalid(isNil) == "invalid"

OnGetError(isNil) == IF isNil THEN "invalid" ELSE "error"

View(e, otp) ==
  IF e.code = "nil" THEN "absent"
  ELSE IF e.ttl = 0 THEN (IF e.code = otp THEN "expired" ELSE "expired_other")
  ELSE IF e.code = otp THEN "live"
  ELSE "live_other"

\* if storedOTP == otp
MatchesAlways(storedOTP, otp) == TRUE

Matches(storedOTP, otp) == storedOTP = otp

\* OTPService.VerifyOTP, up to the comparison of the stored code
VerifyOTPGet(c, identifier, otpType, otp) ==
  LET key == OTPKey(identifier, otpType)
      m == IssueLive(key) /\ issued[key].code = otp
      r == [NoRet EXCEPT !.op = "verify", !.match = m, !.ow = Overwrite(key, otp),
                         !.view = View(otpStore[key], otp),
                         !.inv = key \in invalidated]
  IN
  /\ UNCHANGED <<qVars, gen>>
  /\ otpPc[c] = "idle"
  /\ overlap' = (overlap \/ Others(c))
  /\ UNCHANGED <<otpStore, issued, validFor, invalidated, resets>>
  /\ \/ /\ otpErrs < MaxOTPStoreErrors
        /\ otpErrs' = otpErrs + 1
        /\ otpRet' = [r EXCEPT !.outcome = OnGetError(FALSE), !.fail = "get"]
        /\ UNCHANGED <<otpPc, otpCall>>
     \/ /\ ~OTPLive(otpStore[key])
        /\ otpRet' = [r EXCEPT !.outcome = OnGetError(TRUE)]
        /\ UNCHANGED <<otpPc, otpCall, otpErrs>>
     \/ /\ OTPLive(otpStore[key])
        /\ ~Matches(otpStore[key].code, otp)
        /\ otpRet' = [r EXCEPT !.outcome = "invalid"]
        /\ UNCHANGED <<otpPc, otpCall, otpErrs>>
     \/ /\ OTPLive(otpStore[key])
        /\ Matches(otpStore[key].code, otp)
        /\ otpPc' = [otpPc EXCEPT ![c] = "del"]
        /\ otpCall' = [otpCall EXCEPT ![c] =
              [key |-> key, code |-> otp, match |-> m, view |-> r.view,
               ow |-> r.ow, stale |-> FALSE]]
        /\ UNCHANGED <<otpRet, otpErrs>>

\* OTPService.VerifyOTP after a match: Del, whose error is not looked at
VerifyOTPDel(c) ==
  LET key == otpCall[c].key IN
  /\ UNCHANGED <<qVars, gen>>
  /\ otpPc[c] = "del"
  /\ overlap' = (overlap \/ Others(c))
  /\ \/ /\ otpStore' = RedisDel(otpStore, key)
        /\ UNCHANGED otpErrs
     \/ /\ otpErrs < MaxOTPStoreErrors
        /\ otpErrs' = otpErrs + 1
        /\ UNCHANGED otpStore
  /\ IF otpCall[c].stale
       THEN UNCHANGED <<issued, validFor>>
       ELSE /\ issued' = [issued EXCEPT ![key] = NoIssue]
            /\ validFor' = [validFor EXCEPT ![key] = IF @ < 2 THEN @ + 1 ELSE @]
  /\ otpRet' = [NoRet EXCEPT !.op = "verify", !.outcome = "valid",
                  !.match = otpCall[c].match, !.ow = otpCall[c].ow,
                  !.view = otpCall[c].view, !.del = TRUE,
                  !.gone = ~OTPLive(otpStore'[key]),
                  !.fail = IF otpErrs' # otpErrs THEN "del" ELSE "none"]
  /\ otpPc' = [otpPc EXCEPT ![c] = "idle"]
  /\ otpCall' = [otpCall EXCEPT ![c] = NoCall]
  /\ UNCHANGED <<invalidated, resets>>

\* OTPService.InvalidateOTP
InvalidateOTP(c, identifier, otpType) ==
  LET key == OTPKey(identifier, otpType) IN
  /\ UNCHANGED <<qVars, gen>>
  /\ otpPc[c] = "idle"
  /\ overlap' = (overlap \/ Others(c))
  /\ \/ /\ otpStore' = RedisDel(otpStore, key)
        /\ issued' = [issued EXCEPT ![key] = NoIssue]
        /\ otpRet' = [NoRet EXCEPT !.op = "invalidate", !.outcome = "ok",
                                  !.view = View(otpStore[key], "nil")]
        /\ invalidated' = invalidated \cup {key}
        /\ UNCHANGED otpErrs
     \/ /\ otpErrs < MaxOTPStoreErrors
        /\ otpErrs' = otpErrs + 1
        /\ otpRet' = [NoRet EXCEPT !.op = "invalidate", !.outcome = "error", !.fail = "del",
                                  !.view = View(otpStore[key], "nil")]
        /\ UNCHANGED <<otpStore, issued, invalidated>>
  /\ UNCHANGED <<otpPc, otpCall, validFor, resets>>

\* TickMinutes minutes pass: Redis counts every TTL down
OTPTick ==
  /\ UNCHANGED <<qVars, gen>>
  /\ \E k \in OTPKeys : otpStore[k].ttl > 0
  /\ otpStore' = [k \in OTPKeys |-> Age(otpStore[k], TickMinutes)]
  /\ issued' = [k \in OTPKeys |-> Age(issued[k], TickMinutes)]
  /\ UNCHANGED <<otpPc, otpCall, otpRet, otpErrs, validFor, overlap, invalidated, resets>>

\* AuthService.ResetPassword on the OTP path, up to the comparison inside
\* OTPService.VerifyOTP; any error of VerifyOTP is answered with "Invalid or
\* expired OTP code"
ResetPasswordVerify(c, email, otp) ==
  LET key == OTPKey(email, "password_reset")
      m == IssueLive(key) /\ issued[key].code = otp
      r == [NoRet EXCEPT !.op = "reset", !.match = m, !.ow = Overwrite(key, otp),
                         !.view = View(otpStore[key], otp),
                         !.inv = key \in invalidated]
  IN
  /\ UNCHANGED <<qVars, gen>>
  /\ otpPc[c] = "idle"
  /\ overlap' = (overlap \/ Others(c))
  /\ UNCHANGED <<otpStore, issued, validFor, invalidated, resets>>
  /\ \/ /\ otpErrs < MaxOTPStoreErrors
        /\ otpErrs' = otpErrs + 1
        /\ otpRet' = [r EXCEPT !.outcome = "refused", !.fail = "get"]
        /\ UNCHANGED <<otpPc, otpCall>>
     \/ /\ ~OTPLive(otpStore[key]) \/ ~Matches(otpStore[key].code, otp)
        /\ otpRet' = [r EXCEPT !.outcome = "refused"]
        /\ UNCHANGED <<otpPc, otpCall, otpErrs>>
     \/ /\ OTPLive(otpStore[key])
        /\ Matches(otpStore[key].code, otp)
        /\ otpPc' = [otpPc EXCEPT ![c] = "del"]
        /\ otpCall' = [otpCall EXCEPT ![c] =
              [key |-> key, code |-> otp, match |-> m, view |-> r.view,
               ow |-> r.ow, stale |-> FALSE]]
        /\ UNCHANGED <<otpRet, otpErrs>>

\* AuthService.ResetPassword after a match: VerifyOTP's Del, whose error is
\* not looked at, then the new password is saved for the user of that email
ResetPasswordSave(c) ==
  LET key == otpCall[c].key
      email == CHOOSE i \in Identifiers : OTPKey(i, "password_reset") = key
  IN
  /\ UNCHANGED <<qVars, gen>>
  /\ otpPc[c] = "del"
  /\ overlap' = (overlap \/ Others(c))
  /\ \/ /\ otpStore' = RedisDel(otpStore, key)
        /\ UNCHANGED otpErrs
     \/ /\ otpErrs < MaxOTPStoreErrors
        /\ otpErrs' = otpErrs + 1
        /\ UNCHANGED otpStore
  /\ IF otpCall[c].stale
       THEN UNCHANGED <<issued, validFor>>
       ELSE /\ issued' = [issued EXCEPT ![key] = NoIssue]
            /\ validFor' = [validFor EXCEPT ![key] = IF @ < 2 THEN @ + 1 ELSE @]
  /\ resets' = [resets EXCEPT ![email] = IF otpCall[c].stale THEN @
                                          ELSE IF @ < 2 THEN @ + 1 ELSE @]
  /\ otpRet' = [NoRet EXCEPT !.op = "reset", !.outcome = "changed",
                  !.match = otpCall[c].match, !.ow = otpCall[c].ow,
                  !.view = otpCall[c].view, !.del = TRUE,
                  !.gone = ~OTPLive(otpStore'[key]),
                  !.fail = IF otpErrs' # otpErrs THEN "del" ELSE "none"]
  /\ otpPc' = [otpPc EXCEPT ![c] = "idle"]
  /\ otpCall' = [otpCall EXCEPT ![c] = NoCall]
  /\ UNCHANGED invalidated

OTPNext ==
  \/ \E c \in OTPClients, i \in Identifiers, t \in OTPTypes, o \in Codes : SaveOTP(c, i, t, o)
  \/ \E c \in OTPClients, i \in Identifiers, t \in OTPTypes, o \in Codes : VerifyOTPGet(c, i, t, o)
  \/ \E c \in OTPClients : VerifyOTPDel(c)
  \/ \E c \in OTPClients, i \in Identifiers, t \in OTPTypes : InvalidateOTP(c, i, t)
  \/ OTPTick

\* password resets by OTP: SendPasswordResetEmail saves a code for the pair
\* (email, password_reset), ResetPassword is called with an email and a code
ResetNext ==
  \/ \E c \in OTPClients, i \in Identifiers, o \in Codes : SaveOTP(c, i, "password_reset", o)
  \/ \E c \in OTPClients, i \in Identifiers, o \in Codes : ResetPasswordVerify(c, i, o)
  \/ \E c \in OTPClients : ResetPasswordSave(c)
  \/ OTPTick

\* one client saves, verifies and invalidates codes for pairs whose strings
\* hold a ":"
GenNext == \E digits \in 1..MaxDigits : GenerateOTP(digits)

ScopeNext ==
  \/ \E p \in ScopePairs : SaveOTP("c1", p[1], p[2], "123456")
  \/ \E p \in ScopePairs, o \in Codes : VerifyOTPGet("c1", p[1], p[2], o)
  \/ VerifyOTPDel("c1")
  \/ \E p \in ScopePairs : InvalidateOTP("c1", p[1], p[2])
  \/ OTPTick

(***************************************************************************)
(* Part 2.  Email queue: EmailQueueService over three Redis lists, and the *)
(* worker goroutines that call ProcessEmailQueue in a loop.  Time is       *)
(* counted in seconds and kept relative to the present: a job carries the  *)
(* seconds left until its ProcessAfter and the seconds gone since its      *)
(* LastAttemptedAt, and Tick moves both.                                   *)
(***************************************************************************)

\* workerCount := 2
WorkerCount == 2

\* ProcessingTTL = 5 * time.Minute, ResultTTL = 24 * time.Hour, in seconds
ProcessingTTL == 300
ResultTTL == 86400

\* PriorityUrgent = 0, PriorityLow = 3
PriorityUrgent == 0
PriorityLow == 3

\* a priority beyond the named ones, which QueueEmail's default branch takes
PriorityOther == 6

\* case <-time.After(time.Second)
ErrorPause == 1

\* the bounds of the queue model: jobs enqueued by callers, the largest
\* MaxRetries and the largest delay a caller asks for, and the store
\* failures of a run
MaxJobs == 2
MaxMaxRetries == 1
MaxRetryDepth == 2
MaxDelay == 2
MaxQueueStoreErrors == 1
MaxForeign == 1

EmailHighPriorityQueue == "queue:email:high"
EmailNormalPriorityQueue == "queue:email:normal"
EmailLowPriorityQueue == "queue:email:low"

QueueNames == {EmailHighPriorityQueue, EmailNormalPriorityQueue, EmailLowPriorityQueue}

Workers == 1..WorkerCount
JobIds == 1..MaxJobs
Priorities == {PriorityUrgent, PriorityLow, PriorityOther}
Delays == {0, MaxDelay}

\* models.EmailJob: processAfter is the time left until ProcessAfter (0: the
\* zero time, or a time not in the future), lastAttemptedAt the time gone
\* since LastAttemptedAt (0 while RetryCount = 0); id 0 is the empty ID;
\* createdAt is 0 for the zero time, else n for the clock reading of the
\* n-th QueueEmail call that stamped the job, each later than the one before
NoJob == [id |-> 0, priority |-> 0, processAfter |-> 0, retryCount |-> 0,
          maxRetries |-> 0, lastAttemptedAt |-> 0, createdAt |-> 0]

\* a list item that is not the JSON of an EmailJob, as a writer other than
\* QueueEmail may leave it
Undecodable == [NoJob EXCEPT !.id = -1]

\* json.Unmarshal(jobBytes, &job) returns nil
UnmarshalsAlways(payload) == TRUE

Unmarshals(payload) == payload # Undecodable

\* QueueEmail: "Generate a unique ID if not provided", "Set created time"
Stamped(job, fresh) ==
  [job EXCEPT !.id = IF job.id = 0 THEN fresh ELSE job.id,
              !.createdAt = job.createdAt + 1]

NoMeta == [priority |-> -1, maxRetries |-> 0, processAfter |-> 0]

\* models.EmailJobResult under results:email:<id>
NoResult == [set |-> FALSE, successful |-> FALSE, error |-> "", sentAt |-> FALSE, ttl |-> 0]

\* the *models.EmailJobResult that processEmailJob returns: Successful and
\* SentAt are set when the template was rendered and the mail sent, Error
\* when one of the two failed
JobResultNeverSuccessful(ok) == [successful |-> FALSE, error |-> "error", sentAt |-> FALSE]

JobResult(ok) ==
  [successful |-> ok, error |-> IF ok THEN "" ELSE "error", sentAt |-> ok]

\* ProcessEmailQueue: "Save the result", after every call of processEmailJob
ResultWrittenWhenTerminal(jobResult, job) ==
  jobResult.successful \/ job.retryCount >= job.maxRetries

ResultWritten(jobResult, job) == TRUE

\* QueueEmail: "Select queue based on priority"
QueueForFlat(priority) == EmailNormalPriorityQueue

QueueFor(priority) ==
  IF priority <= 0 THEN EmailHighPriorityQueue
  ELSE IF priority <= 5 THEN EmailNormalPriorityQueue
  ELSE EmailLowPriorityQueue

\* the keys of ProcessEmailQueue's BRPop, in the order Redis scans them
PopOrder == <<EmailHighPriorityQueue, EmailNormalPriorityQueue, EmailLowPriorityQueue>>

\* redis LPUSH, RPUSH and the element and remainder of an RPOP
LPushDropping(q, x) == q

LPush(q, x) == <<x>> \o q

RPushDropping(q, x) == q

RPush(q, x) == Append(q, x)

RPopped(q) == q[Len(q)]

RPopRestKeeping(q) == q

RPopRest(q) == SubSeq(q, 1, Len(q) - 1)

\* the position of a list among the keys of the BRPop
PopRank(q) == CHOOSE i \in 1..Len(PopOrder) : PopOrder[i] = q

BRPopIndexLast(qs) ==
  LET S == {i \in 1..Len(PopOrder) : Len(qs[PopOrder[i]]) > 0} IN
  IF S = {} THEN 0 ELSE CHOOSE i \in S : \A j \in S : i >= j

\* BRPOP k1 k2 k3: the first key, in order, whose list is not empty (0: none)
BRPopIndex(qs) ==
  LET S == {i \in 1..Len(PopOrder) : Len(qs[PopOrder[i]]) > 0} IN
  IF S = {} THEN 0 ELSE CHOOSE i \in S : \A j \in S : i <= j

\* !job.ProcessAfter.IsZero() && job.ProcessAfter.After(time.Now())
IsDelayedNever(job) == FALSE

IsDelayed(job) == job.processAfter > 0

\* 1 << uint(n), by doubling
RECURSIVE Shl1(_)
Shl1(n) == IF n = 0 THEN 1 ELSE 2 * Shl1(n - 1)

\* backoff := time.Duration(1<<uint(job.RetryCount)) * time.Second
BackoffFixed(retryCount) == 1

Backoff(retryCount) == Shl1(retryCount)

\* job.RetryCount < job.MaxRetries
ShouldRetryInclusive(job) == job.retryCount <= job.maxRetries

ShouldRetry(job) == job.retryCount < job.maxRetries

\* !jobResult.Successful && job.RetryCount < job.MaxRetries
NeedsRetryWhateverResult(jobResult, job) == ShouldRetry(job)

NeedsRetry(jobResult, job) == ~jobResult.successful /\ ShouldRetry(job)

\* a second passes over a job
Older(job) ==
  [job EXCEPT !.processAfter = IF @ > 0 THEN @ - 1 ELSE 0,
              !.lastAttemptedAt = IF job.retryCount >= 1 /\ @ < Backoff(job.retryCount)
                                  THEN @ + 1 ELSE @]

InQueues(id) == \E q \in QueueNames : \E i \in 1..Len(queues[q]) : queues[q][i].id = id

Held(id) == \E w \in Workers : wjob[w].id = id

\* redis DEL of processing:email:<id>
DelMarkerNothing(markers, id) == markers

DelMarker(markers, id) == [markers EXCEPT ![id] = 0]

\* the store answers with an error: one of the failures the run may contain
StoreFails == faults > 0 /\ faults' = faults - 1

StoreWorks == faults' = faults

ReturnErrorExits(w) ==
  /\ wpc' = [wpc EXCEPT ![w] = "done"]
  /\ wjob' = [wjob EXCEPT ![w] = NoJob]
  /\ wqueue' = [wqueue EXCEPT ![w] = "none"]
  /\ UNCHANGED wake

\* ProcessEmailQueue returns an error: the worker logs it and pauses
ReturnError(w) ==
  /\ wpc' = [wpc EXCEPT ![w] = "pause"]
  /\ wake' = [wake EXCEPT ![w] = ErrorPause]
  /\ wjob' = [wjob EXCEPT ![w] = NoJob]
  /\ wqueue' = [wqueue EXCEPT ![w] = "none"]

\* EmailWorker.worker, at the head of its loop: the select returns on a
\* closed stopCh and else takes the default branch, the next poll (the ticker
\* branch only logs and comes back to the select)
SelectIgnoringStop == "poll"

Select == IF stopCh = "closed" THEN "done" ELSE "poll"

\* EmailWorker.worker returns: defer w.wg.Done()
Exits(w) == wpc[w] # "done" /\ wpc'[w] = "done"

\* ProcessEmailQueue returns nil: the worker is back at its select
ReturnNil(w) ==
  /\ wpc' = [wpc EXCEPT ![w] = Select]
  /\ wjob' = [wjob EXCEPT ![w] = NoJob]
  /\ wqueue' = [wqueue EXCEPT ![w] = "none"]
  /\ UNCHANGED wake

\* ProcessEmailQueue: BRPop timed out on empty lists, err == redis.Nil,
\* "No job available, that's fine"
EmptyPollReturnError(w) == ReturnError(w)

EmptyPollReturn(w) == ReturnNil(w)

QInit ==
  /\ queues = [q \in QueueNames |-> <<>>]
  /\ processing = [i \in JobIds |-> 0]
  /\ results = [i \in JobIds |-> NoResult]
  /\ wpc = [w \in Workers |-> "none"]
  /\ running = FALSE
  /\ stopCh = "open"
  /\ stopPc = "idle"
  /\ afterStop = [w \in Workers |-> 0]
  /\ wg = 0
  /\ wjob = [w \in Workers |-> NoJob]
  /\ wqueue = [w \in Workers |-> "none"]
  /\ wresult = [w \in Workers |-> JobResult(FALSE)]
  /\ wake = [w \in Workers |-> 0]
  /\ nextId = 1
  /\ accepted = {}
  /\ meta = [i \in JobIds |-> NoMeta]
  /\ early = {}
  /\ polled = FALSE
  /\ popped = {}
  /\ attempts = [i \in JobIds |-> 0]
  /\ sent = {}
  /\ tooEarly = FALSE
  /\ retryEarly = FALSE

\* EmailQueueService.QueueEmail, called with a new job
QueueEmail(priority, delay, maxRetries) ==
  LET job == Stamped([id |-> 0, priority |-> priority, processAfter |-> delay,
                      retryCount |-> 0, maxRetries |-> maxRetries, lastAttemptedAt |-> 0,
                      createdAt |-> 0], nextId)
      q == QueueFor(priority)
  IN
  /\ UNCHANGED otpVars
  /\ nextId <= MaxJobs
  /\ nextId' = nextId + 1
  /\ \/ /\ StoreWorks
        /\ queues' = [queues EXCEPT ![q] = LPush(@, job)]
        /\ accepted' = accepted \cup {job.id}
        /\ meta' = [meta EXCEPT ![job.id] = [priority |-> priority, maxRetries |-> maxRetries,
                                             processAfter |-> delay]]
        /\ early' = IF ~polled /\ delay = 0 THEN early \cup {job.id} ELSE early
     \/ /\ StoreFails
        /\ UNCHANGED <<queues, accepted, meta, early>>
  /\ UNCHANGED <<wg, running, stopCh, stopPc, afterStop, processing, results, wpc, wjob, wqueue, wresult, wake, polled,
                 popped, attempts, sent, tooEarly, retryEarly>>

\* QueueOTPEmail: MaxRetries: 3
OTPMaxRetries == 3

\* AuthService.GenerateAndSendOTP: the check of the identifier, GenerateOTP,
\* SaveOTP, then the switch on the type, which queues the email through
\* QueueOTPEmail and QueueEmail, or returns an error
GenerateAndSendOTP(c, identifier, otpType, otp) ==
  LET key == OTPKey(identifier, otpType)
      job == Stamped([id |-> 0, priority |-> PriorityUrgent, processAfter |-> 0,
                      retryCount |-> 0, maxRetries |-> OTPMaxRetries,
                      lastAttemptedAt |-> 0, createdAt |-> 0], nextId)
      q == QueueFor(job.priority)
      error(why) == [NoRet EXCEPT !.op = "send", !.outcome = "error", !.fail = why]
  IN
  /\ otpPc[c] = "idle"
  /\ overlap' = (overlap \/ Others(c))
  /\ UNCHANGED <<gen, otpPc>>
  /\ UNCHANGED <<wg, running, stopCh, stopPc, afterStop, processing, results, wpc, wjob,
                 wqueue, wresult, wake, polled, popped, attempts, sent, tooEarly,
                 retryEarly>>
  /\ \/ /\ identifier = ""
        /\ otpRet' = error("identifier")
        /\ UNCHANGED <<otpStore, issued, validFor, otpCall, invalidated, resets, otpErrs>>
        /\ UNCHANGED <<queues, accepted, meta, early, nextId, faults>>
     \/ /\ identifier # ""
        /\ otpErrs < MaxOTPStoreErrors
        /\ otpErrs' = otpErrs + 1
        /\ otpRet' = error("set")
        /\ UNCHANGED <<otpStore, issued, validFor, otpCall, invalidated, resets>>
        /\ UNCHANGED <<queues, accepted, meta, early, nextId, faults>>
     \/ /\ identifier # ""
        /\ otpStore' = RedisSet(otpStore, key, otp, OTPExpiryTime)
        /\ issued' = [issued EXCEPT ![key] =
              [code |-> otp, ttl |-> DocOTPMinutes,
               prev |-> IF IssueLive(key) /\ issued[key].code # otp
                        THEN issued[key].code ELSE "nil"]]
        /\ validFor' = [validFor EXCEPT ![key] = 0]
        /\ otpCall' = Outdate(otpCall, key)
        /\ invalidated' = invalidated \ {key}
        /\ resets' = IF otpType = "password_reset"
                       THEN [resets EXCEPT ![identifier] = 0] ELSE resets
        /\ UNCHANGED otpErrs
        /\ \/ /\ otpType \notin EmailedTypes
              /\ otpRet' = error("type")
              /\ UNCHANGED <<queues, accepted, meta, early, nextId, faults>>
           \/ /\ otpType \in EmailedTypes
              /\ nextId <= MaxJobs
              /\ nextId' = nextId + 1
              /\ \/ /\ StoreWorks
                    /\ queues' = [queues EXCEPT ![q] = LPush(@, job)]
                    /\ accepted' = accepted \cup {job.id}
                    /\ meta' = [meta EXCEPT ![job.id] =
                                  [priority |-> job.priority, maxRetries |-> job.maxRetries,
                                   processAfter |-> 0]]
                    /\ early' = IF ~polled THEN early \cup {job.id} ELSE early
                    /\ otpRet' = [NoRet EXCEPT !.op = "send", !.outcome = "ok"]
                 \/ /\ StoreFails
                    /\ otpRet' = error("enqueue")
                    /\ UNCHANGED <<queues, accepted, meta, early>>

\* ProcessEmailQueue: BRPop, Unmarshal and the check of ProcessAfter
Poll(w) ==
  LET i == BRPopIndex(queues)
      q == PopOrder[i]
      job == RPopped(queues[q])
  IN
  /\ UNCHANGED otpVars
  /\ wpc[w] = "poll"
  /\ polled' = TRUE
  /\ afterStop' = [afterStop EXCEPT ![w] = IF stopCh = "closed" THEN @ + 1 ELSE @]
  /\ \/ /\ StoreFails
        /\ ReturnError(w)
        /\ UNCHANGED <<queues, popped>>
     \/ /\ StoreWorks
        /\ i = 0
        /\ EmptyPollReturn(w)
        /\ UNCHANGED <<queues, popped>>
     \/ /\ StoreWorks
        /\ i # 0
        /\ queues' = [queues EXCEPT ![q] = RPopRest(@)]
        /\ IF Unmarshals(job)
             THEN /\ popped' = popped \cup {job.id}
                  /\ wjob' = [wjob EXCEPT ![w] = job]
                  /\ wqueue' = [wqueue EXCEPT ![w] = q]
                  /\ wpc' = [wpc EXCEPT ![w] = IF IsDelayed(job) THEN "requeue" ELSE "mark"]
                  /\ UNCHANGED wake
             ELSE /\ ReturnError(w)
                  /\ UNCHANGED popped
  /\ UNCHANGED <<running, stopCh, stopPc, processing, results, wresult, nextId, accepted, meta, early,
                 attempts, sent, tooEarly, retryEarly>>
  /\ wg' = IF Exits(w) THEN wg - 1 ELSE wg

\* ProcessEmailQueue: "Put it back in the queue for later processing"
Requeue(w) ==
  /\ UNCHANGED otpVars
  /\ wpc[w] = "requeue"
  /\ \/ /\ StoreWorks
        /\ queues' = [queues EXCEPT ![wqueue[w]] = RPush(@, wjob[w])]
        /\ ReturnNil(w)
     \/ /\ StoreFails
        /\ ReturnError(w)
        /\ UNCHANGED queues
  /\ UNCHANGED <<running, stopCh, stopPc, afterStop, processing, results, wresult, nextId, accepted, meta, early,
                 polled, popped, attempts, sent, tooEarly, retryEarly>>
  /\ wg' = IF Exits(w) THEN wg - 1 ELSE wg

\* ProcessEmailQueue: "Mark as being processed", then the call of processEmailJob
Mark(w) ==
  LET job == wjob[w] IN
  /\ UNCHANGED otpVars
  /\ wpc[w] = "mark"
  /\ \/ /\ StoreWorks
        /\ processing' = [processing EXCEPT ![job.id] = ProcessingTTL]
        /\ wpc' = [wpc EXCEPT ![w] = "send"]
        /\ attempts' = [attempts EXCEPT ![job.id] = @ + 1]
        /\ tooEarly' = (tooEarly \/ job.processAfter > 0)
        /\ retryEarly' = (retryEarly \/
              (job.retryCount >= 1 /\ job.lastAttemptedAt < 2 ^ job.retryCount))
        /\ UNCHANGED <<wjob, wqueue, wake>>
     \/ /\ StoreFails
        /\ ReturnError(w)
        /\ UNCHANGED <<processing, attempts, tooEarly, retryEarly>>
  /\ UNCHANGED <<wg, running, stopCh, stopPc, afterStop, queues, results, wresult, nextId, accepted, meta, early,
                 polled, popped, sent>>

\* processEmailJob: the template is rendered and the mail sent, or one fails
Send(w) ==
  LET job == wjob[w] IN
  /\ UNCHANGED otpVars
  /\ wpc[w] = "send"
  /\ \/ /\ wresult' = [wresult EXCEPT ![w] = JobResult(TRUE)]
        /\ sent' = sent \cup {job.id}
     \/ /\ wresult' = [wresult EXCEPT ![w] = JobResult(FALSE)]
        /\ UNCHANGED sent
  /\ wpc' = [wpc EXCEPT ![w] = "result"]
  /\ UNCHANGED <<wg, running, stopCh, stopPc, afterStop, queues, processing, results, wjob, wqueue, wake, nextId, faults,
                 accepted, meta, early, polled, popped, attempts, tooEarly, retryEarly>>

\* ProcessEmailQueue: "Save the result"
SaveResult(w) ==
  LET job == wjob[w] IN
  /\ UNCHANGED otpVars
  /\ wpc[w] = "result"
  /\ \/ /\ StoreWorks
        /\ results' = IF ResultWritten(wresult[w], job)
                        THEN [results EXCEPT ![job.id] =
                               [set |-> TRUE, successful |-> wresult[w].successful,
                                error |-> wresult[w].error, sentAt |-> wresult[w].sentAt,
                                ttl |-> ResultTTL]]
                        ELSE results
        /\ wpc' = [wpc EXCEPT ![w] = "cleanup"]
        /\ UNCHANGED <<wjob, wqueue, wake>>
     \/ /\ StoreFails
        /\ ReturnError(w)
        /\ UNCHANGED results
  /\ UNCHANGED <<wg, running, stopCh, stopPc, afterStop, queues, processing, wresult, nextId, accepted, meta, early,
                 polled, popped, attempts, sent, tooEarly, retryEarly>>

\* ProcessEmailQueue: "Clean up processing marker" (Del, error not looked at)
\* and the choice between a retry and the end of the call
Cleanup(w) ==
  LET job == wjob[w] IN
  /\ UNCHANGED otpVars
  /\ wpc[w] = "cleanup"
  /\ \/ /\ StoreWorks
        /\ processing' = DelMarker(processing, job.id)
     \/ /\ StoreFails
        /\ UNCHANGED processing
  /\ IF NeedsRetry(wresult[w], job)
       THEN /\ wpc' = [wpc EXCEPT ![w] = "retry"]
            /\ UNCHANGED <<wjob, wqueue, wake>>
       ELSE ReturnNil(w)
  /\ UNCHANGED <<running, stopCh, stopPc, afterStop, queues, results, wresult, nextId, accepted, meta, early,
                 polled, popped, attempts, sent, tooEarly, retryEarly>>
  /\ wg' = IF Exits(w) THEN wg - 1 ELSE wg

\* ProcessEmailQueue: "requeue with backoff", through QueueEmail
Retry(w) ==
  LET old == wjob[w]
      job == Stamped([old EXCEPT !.retryCount = old.retryCount + 1,
                                 !.lastAttemptedAt = 0,
                                 !.processAfter = Backoff(old.retryCount + 1)], nextId)
  IN
  /\ UNCHANGED otpVars
  /\ wpc[w] = "retry"
  /\ \/ /\ StoreWorks
        /\ queues' = [queues EXCEPT ![QueueFor(job.priority)] = LPush(@, job)]
        /\ ReturnNil(w)
     \/ /\ StoreFails
        /\ ReturnError(w)
        /\ UNCHANGED queues
  /\ UNCHANGED <<running, stopCh, stopPc, afterStop, processing, results, wresult, nextId, accepted, meta, early,
                 polled, popped, attempts, sent, tooEarly, retryEarly>>
  /\ wg' = IF Exits(w) THEN wg - 1 ELSE wg

\* EmailWorker.worker: the select after an error returns on a closed stopCh,
\* or goes back to the head of the loop when the pause is over
Resume(w) ==
  /\ UNCHANGED otpVars
  /\ wpc[w] = "pause"
  /\ wake[w] = 0 \/ stopCh = "closed"
  /\ wpc' = [wpc EXCEPT ![w] = Select]
  /\ UNCHANGED <<queues, processing, results, wjob, wqueue, wresult, wake, running,
                 stopCh, stopPc, afterStop, nextId, faults,
                 accepted, meta, early, polled, popped, attempts, sent,
                 tooEarly, retryEarly>>
  /\ wg' = IF Exits(w) THEN wg - 1 ELSE wg

\* EmailWorker.worker: a goroutine that Start has launched reaches its select
Begin(w) ==
  /\ UNCHANGED otpVars
  /\ wpc[w] = "start"
  /\ wpc' = [wpc EXCEPT ![w] = Select]
  /\ UNCHANGED <<queues, processing, results, wjob, wqueue, wresult, wake, running,
                 stopCh, stopPc, afterStop, nextId, faults,
                 accepted, meta, early, polled, popped, attempts, sent,
                 tooEarly, retryEarly>>
  /\ wg' = IF Exits(w) THEN wg - 1 ELSE wg

\* EmailWorker.Start: if w.running { return }
AlreadyRunningNever == FALSE

AlreadyRunning == running

\* EmailWorker.Start, under w.mu: it returns when the worker is running, else
\* it makes a new stopCh and launches workerCount goroutines, wg.Add(1) each
Start ==
  /\ UNCHANGED otpVars
  /\ stopPc = "idle"
  /\ IF AlreadyRunning
       THEN UNCHANGED qVars
       ELSE /\ running' = TRUE
            /\ stopCh' = "open"
            /\ wpc' = [w \in Workers |-> "start"]
            /\ wg' = wg + WorkerCount
            /\ afterStop' = [w \in Workers |-> 0]
            /\ UNCHANGED <<queues, processing, results, wjob, wqueue, wresult, wake,
                           stopPc, nextId, faults, accepted, meta, early, polled,
                           popped, attempts, sent, tooEarly, retryEarly>>

\* EmailWorker.Stop, under w.mu: it returns when the worker is not running,
\* else close(w.stopCh), and it keeps w.mu while it waits
StopClose ==
  /\ UNCHANGED otpVars
  /\ stopPc = "idle"
  /\ IF ~running
       THEN UNCHANGED qVars
       ELSE /\ stopCh' = "closed"
            /\ stopPc' = "wait"
            /\ UNCHANGED <<queues, processing, results, wpc, wjob, wqueue, wresult, wake,
                           running, afterStop, wg, nextId, faults, accepted, meta, early,
                           polled, popped, attempts, sent, tooEarly, retryEarly>>

\* w.wg.Wait() blocks until the WaitGroup counter is zero
WaitReturnsAtOnce == TRUE

WaitReturns == wg = 0

\* EmailWorker.Stop: w.wg.Wait() returns, w.running = false
StopWait ==
  /\ UNCHANGED otpVars
  /\ stopPc = "wait"
  /\ WaitReturns
  /\ running' = FALSE
  /\ stopPc' = "idle"
  /\ UNCHANGED <<wg, queues, processing, results, wpc, wjob, wqueue, wresult, wake, stopCh,
                 afterStop, nextId, faults, accepted, meta, early, polled, popped,
                 attempts, sent, tooEarly, retryEarly>>

\* the process of a worker goroutine ends for good between the BRPop that
\* gave it a job and the Set of the result
Crash(w) ==
  /\ UNCHANGED otpVars
  /\ wpc[w] \in {"requeue", "mark", "send", "result"}
  /\ wpc' = [wpc EXCEPT ![w] = "crashed"]
  /\ UNCHANGED <<wg, queues, processing, results, wjob, wqueue, wresult, wake, running,
                 stopCh, stopPc, afterStop, nextId, faults,
                 accepted, meta, early, polled, popped, attempts, sent,
                 tooEarly, retryEarly>>

\* what the lapse of a marker does to the lists: the key has a TTL and no
\* reader, so nothing
AfterExpiryReclaimed(qs, job) == [qs EXCEPT ![QueueFor(job.priority)] = LPush(@, job)]

AfterExpiry(qs, job) == qs

\* ProcessingTTL runs out on the marker a crashed worker has left behind
MarkerExpires(w) ==
  /\ UNCHANGED otpVars
  /\ wpc[w] = "crashed"
  /\ processing[wjob[w].id] > 0
  /\ processing' = [processing EXCEPT ![wjob[w].id] = 0]
  /\ queues' = AfterExpiry(queues, wjob[w])
  /\ UNCHANGED <<wg, results, wpc, wjob, wqueue, wresult, wake, running,
                 stopCh, stopPc, afterStop, nextId, faults,
                 accepted, meta, early, polled, popped, attempts, sent,
                 tooEarly, retryEarly>>

\* the undecodable items in the lists
Foreign ==
  {<<q, i>> \in QueueNames \X (1..(MaxJobs + MaxForeign)) :
     i <= Len(queues[q]) /\ queues[q][i] = Undecodable}

\* a writer other than QueueEmail pushes an item that is not an EmailJob
PushForeign(q) ==
  /\ UNCHANGED otpVars
  /\ Cardinality(Foreign) < MaxForeign
  /\ queues' = [queues EXCEPT ![q] = LPush(@, Undecodable)]
  /\ UNCHANGED <<wg, processing, results, wpc, wjob, wqueue, wresult, wake, running,
                 stopCh, stopPc, afterStop, nextId, faults,
                 accepted, meta, early, polled, popped, attempts, sent,
                 tooEarly, retryEarly>>

\* something waits for the clock
Waiting ==
  \/ \E q \in QueueNames : \E i \in 1..Len(queues[q]) : queues[q][i] # Older(queues[q][i])
  \/ \E w \in Workers : wjob[w] # Older(wjob[w]) \/ wake[w] > 0

\* a second passes
Tick ==
  /\ UNCHANGED otpVars
  /\ Waiting
  /\ queues' = [q \in QueueNames |-> [i \in 1..Len(queues[q]) |-> Older(queues[q][i])]]
  /\ wjob' = [w \in Workers |-> Older(wjob[w])]
  /\ wake' = [w \in Workers |-> IF wake[w] > 0 THEN wake[w] - 1 ELSE 0]
  /\ UNCHANGED <<wg, running, stopCh, stopPc, afterStop, processing, results, wpc, wqueue, wresult, nextId,
                 faults, accepted, meta, early, polled, popped, attempts, sent,
                 tooEarly, retryEarly>>

WorkerStep(w) ==
  \/ Poll(w)
  \/ Requeue(w)
  \/ Mark(w)
  \/ Send(w)
  \/ SaveResult(w)
  \/ Cleanup(w)
  \/ Retry(w)

Next ==
  \/ \E p \in Priorities, d \in Delays, m \in 0..MaxMaxRetries : QueueEmail(p, d, m)
  \/ Start
  \/ \E w \in Workers : Begin(w)
  \/ \E w \in Workers : WorkerStep(w)
  \/ \E w \in Workers : Resume(w)
  \/ Tick

\* urgent jobs without delay, with more retries
RetryNext ==
  \/ \E m \in 0..MaxRetryDepth : QueueEmail(PriorityUrgent, 0, m)
  \/ Start
  \/ \E w \in Workers : Begin(w)
  \/ \E w \in Workers : WorkerStep(w)
  \/ \E w \in Workers : Resume(w)
  \/ Tick

\* the named priorities, with and without delay, and no pause: the store answers
LiveNext ==
  \/ \E p \in {PriorityUrgent, PriorityLow}, d \in Delays, m \in 0..MaxMaxRetries :
        QueueEmail(p, d, m)
  \/ Start
  \/ \E w \in Workers : Begin(w)
  \/ \E w \in Workers : WorkerStep(w)
  \/ Tick

\* the worker is started and stopped, again and again, while urgent jobs
\* with a retry come in
StopNext ==
  \/ QueueEmail(PriorityUrgent, 0, MaxMaxRetries)
  \/ Start
  \/ StopClose
  \/ StopWait
  \/ \E w \in Workers : Begin(w)
  \/ \E w \in Workers : WorkerStep(w)
  \/ \E w \in Workers : Resume(w)
  \/ Tick

\* urgent jobs with and without delay, and workers that may crash while they
\* hold a job
CrashNext ==
  \/ \E d \in Delays : QueueEmail(PriorityUrgent, d, MaxMaxRetries)
  \/ Start
  \/ \E w \in Workers : Begin(w)
  \/ \E w \in Workers : WorkerStep(w)
  \/ \E w \in Workers : Resume(w)
  \/ \E w \in Workers : Crash(w)
  \/ \E w \in Workers : MarkerExpires(w)
  \/ Tick

\* low jobs with a retry, and items in the lists that are not EmailJobs
\* the one worker goroutine of a single-worker run
Solo == CHOOSE w \in Workers : \A v \in Workers : w <= v

\* a run in which one worker loop does all the polling
SoloNext ==
  \/ \E p \in {PriorityUrgent, PriorityLow}, d \in Delays, m \in 0..MaxMaxRetries :
        QueueEmail(p, d, m)
  \/ Start
  \/ Begin(Solo)
  \/ WorkerStep(Solo)
  \/ Resume(Solo)
  \/ Tick

\* errors of both kinds, a store failure and a payload that does not
\* deserialize, with Start and Stop
\* the steps of a worker on jobs that are due and have no retry
DueStep(w) ==
  \/ Poll(w)
  \/ Mark(w)
  \/ Send(w)
  \/ SaveResult(w)
  \/ Cleanup(w)

PauseNext ==
  \/ QueueEmail(PriorityLow, 0, 0)
  \/ PushForeign(QueueFor(PriorityLow))
  \/ Start
  \/ StopClose
  \/ StopWait
  \/ \E w \in Workers : Begin(w)
  \/ \E w \in Workers : DueStep(w)
  \/ \E w \in Workers : Resume(w)
  \/ Tick

\* OTPs are issued through GenerateAndSendOTP and verified
SendNext ==
  \/ \E i \in SendIdentifiers, t \in SendTypes : GenerateAndSendOTP("c1", i, t, "123456")
  \/ \E i \in SendIdentifiers \ {""}, t \in SendTypes, o \in Codes :
        VerifyOTPGet("c1", i, t, o)
  \/ VerifyOTPDel("c1")
  \/ OTPTick

PayloadNext ==
  \/ QueueEmail(PriorityLow, 0, MaxMaxRetries)
  \/ \E q \in QueueNames : PushForeign(q)
  \/ Start
  \/ \E w \in Workers : Begin(w)
  \/ \E w \in Workers : WorkerStep(w)
  \/ \E w \in Workers : Resume(w)
  \/ Tick

(***************************************************************************)
(* Part 3.  Specifications                                                 *)
(***************************************************************************)

Init == OTPInit /\ QInit /\ faults = MaxQueueStoreErrors

\* the store is available throughout
LiveInit == OTPInit /\ QInit /\ faults = 0

OTPSpec == Init /\ [][OTPNext]_vars

ResetSpec == Init /\ [][ResetNext]_vars

ScopeSpec == Init /\ [][ScopeNext]_vars

Spec == Init /\ [][Next]_vars

RetrySpec == Init /\ [][RetryNext]_vars

CrashSpec == Init /\ [][CrashNext]_vars

PayloadSpec == Init /\ [][PayloadNext]_vars

SendSpec == Init /\ [][SendNext]_vars

\* every worker goroutine keeps running and time passes
PauseSpec ==
  /\ Init
  /\ [][PauseNext]_vars
  /\ \A w \in Workers : WF_vars(Begin(w))
  /\ \A w \in Workers : WF_vars(DueStep(w))
  /\ \A w \in Workers : WF_vars(Resume(w))
  /\ WF_vars(Tick)

SoloSpec == Init /\ [][SoloNext]_vars

GenSpec == Init /\ [][GenNext]_vars

\* every worker goroutine keeps running and time passes
LiveSpec ==
  /\ LiveInit
  /\ [][LiveNext]_vars
  /\ WF_vars(Start)
  /\ \A w \in Workers : WF_vars(Begin(w))
  /\ \A w \in Workers : WF_vars(WorkerStep(w))
  /\ WF_vars(Tick)

\* every worker goroutine keeps running until it returns
StopSpec ==
  /\ Init
  /\ [][StopNext]_vars
  /\ \A w \in Workers : WF_vars(Begin(w))
  /\ \A w \in Workers : WF_vars(WorkerStep(w))
  /\ \A w \in Workers : WF_vars(Resume(w))
  /\ WF_vars(StopWait)

(***************************************************************************)
(* Properties of the OTP store                                             *)
(***************************************************************************)

\* C2 (single-use OTP, sequential): when calls do not overlap, a VerifyOTP
\* that is not answered with a store error returns valid exactly when it
\* submits the code last saved for the pair, still within its life and not
\* yet used, and a valid verdict leaves the key deleted.
C2_SingleUseSequential ==
  (~overlap /\ otpRet.op = "verify" /\ otpRet.outcome # "error") =>
     /\ (otpRet.outcome = "valid") <=> otpRet.match
     /\ (otpRet.outcome = "valid") => otpRet.gone

\* the same with every store operation succeeding (holds: diagnostic)
C2_SingleUseSequentialNoStoreError == (otpErrs = 0) => C2_SingleUseSequential

\* C3 (single-use OTP, concurrent): of the VerifyOTP calls that read one
\* saved code of a pair, at most one returns valid; stated for the runs in
\* which every store operation succeeds.
C3_AtMostOneValid ==
  (otpErrs = 0) => \A k \in OTPKeys : validFor[k] <= 1

\* C9 (expiry looks like absence): a VerifyOTP that finds the key expired,
\* or finds no key at all, returns invalid without error (or the store
\* error any read may meet), issues no Del, and the API message is the
\* same "Invalid or expired OTP" in both cases.
C9_ExpiredLikeAbsent ==
  (otpRet.op = "verify" /\ otpRet.view \in {"absent", "expired", "expired_other"}) =>
     /\ otpRet.outcome \in {"invalid", "error"}
     /\ ~otpRet.del
     /\ otpRet.outcome = "invalid" => AuthVerifyOTP(otpRet.outcome) = "Invalid or expired OTP"

\* a VerifyOTP that submitted the very code the expired key still holds has
\* returned invalid
C9_Witness ==
  otpRet.op = "verify" /\ otpRet.view = "expired" /\ otpRet.outcome = "invalid" /\ ~otpRet.match

\* C10 (one live code per pair): once a save has overwritten a live code c1
\* by c2, a VerifyOTP begun afterwards returns invalid for c1 and valid for
\* c2 (unless it is answered with a store error).
C10_OverwriteWins ==
  (otpRet.op = "verify" /\ otpRet.outcome # "error") =>
     /\ otpRet.ow = "old" => otpRet.outcome = "invalid"
     /\ otpRet.ow = "new" => otpRet.outcome = "valid"

\* the same for runs without overlapping calls (holds: diagnostic)
C10_OverwriteWinsSequential == ~overlap => C10_OverwriteWins

\* C11 (a mismatch leaves the code intact): a VerifyOTP that finds a live
\* code other than the submitted one returns invalid (or the store error of
\* its read) and issues no Del, its step leaves the stored code and its TTL
\* as they were, and, when calls do not overlap, a VerifyOTP with the saved
\* code inside its life returns valid whatever wrong attempts came before.
C11_MismatchLeavesCode ==
  /\ [](otpRet.op = "verify" /\ otpRet.view = "live_other" =>
           otpRet.outcome \in {"invalid", "error"} /\ ~otpRet.del)
  /\ [](~overlap /\ otpRet.op = "verify" /\ otpRet.match =>
           otpRet.outcome \in {"valid", "error"})
  /\ [][(otpRet' # otpRet /\ otpRet'.op = "verify" /\ otpRet'.view = "live_other") =>
           otpStore' = otpStore]_vars

\* a wrong code was submitted against a live code and refused
C11_Witness ==
  otpRet.op = "verify" /\ otpRet.view = "live_other" /\ otpRet.outcome = "invalid"

\* C12 (store errors are errors): a VerifyOTP whose read of the store fails
\* returns an error, never valid and never invalid; it returns invalid
\* without error only when the key is absent (or expired) or holds another
\* code; a SaveOTP whose write fails returns an error; and the API tells the
\* error and the invalid verdict apart.
C12_StoreErrorDistinct ==
  /\ otpRet.op = "verify" =>
        /\ (otpRet.fail = "get") <=> (otpRet.outcome = "error")
        /\ otpRet.outcome = "invalid" =>
              otpRet.view \in {"absent", "expired", "expired_other", "live_other"}
  /\ otpRet.op = "save" => ((otpRet.fail = "set") <=> (otpRet.outcome = "error"))
  /\ AuthVerifyOTP("error") # AuthVerifyOTP("invalid")
  /\ AuthVerifyOTP("error") # AuthVerifyOTP("valid")

\* the read of a live, matching code has failed and the call returned an error
C12_Witness ==
  otpRet.op = "verify" /\ otpRet.fail = "get" /\ otpRet.view = "live" /\ otpRet.outcome = "error"

\* C13 (invalidation): after InvalidateOTP has returned without error the
\* key is not in the store and every VerifyOTP begun for the pair returns
\* invalid (or a store error) until the next SaveOTP for it; InvalidateOTP
\* returns an error only when its Del fails, not when there is no code.
C13_InvalidateDeletes ==
  /\ \A k \in invalidated : ~OTPLive(otpStore[k])
  /\ (otpRet.op = "verify" /\ otpRet.inv) => otpRet.outcome \in {"invalid", "error"}
  /\ otpRet.op = "invalidate" => ((otpRet.outcome = "error") <=> (otpRet.fail = "del"))

\* a code is refused for a pair that was invalidated while its code was live
C13_Witness ==
  /\ otpRet.op = "verify" /\ otpRet.inv /\ otpRet.outcome = "invalid"
  /\ \E k \in OTPKeys : k \notin invalidated /\ OTPLive(otpStore[k])

\* a pair without a code was invalidated without error
C13_WitnessAbsent ==
  otpRet.op = "invalidate" /\ otpRet.view = "absent" /\ otpRet.outcome = "ok"

(***************************************************************************)
(* Properties of the email queue                                           *)
(***************************************************************************)

\* an urgent and a low job, both enqueued without delay before the first poll
EarlyPair(j1, j2) ==
  /\ j1 \in early
  /\ j2 \in early
  /\ meta[j1].priority = PriorityUrgent
  /\ meta[j2].priority = PriorityLow

Gone(id) == id \in accepted /\ ~InQueues(id) /\ ~Held(id)

\* C1: of an urgent job J1 and a low job J2, both enqueued and due before any
\* poll, J1 is handed to the send step before J2 is
C1_UrgentSentFirst ==
  \A j1 \in JobIds, j2 \in JobIds :
    (EarlyPair(j1, j2) /\ attempts[j2] > 0) => attempts[j1] > 0

\* C1, as the code has it: of an urgent job J1 and a low job J2, both enqueued
\* and due before any poll, J1 is popped from its list before J2 is
C1_UrgentPoppedFirst ==
  \A j1 \in JobIds, j2 \in JobIds :
    (EarlyPair(j1, j2) /\ j2 \in popped) => j1 \in popped

C1_Witness ==
  \E j1 \in JobIds, j2 \in JobIds :
    EarlyPair(j1, j2) /\ j2 \in popped /\ j1 < j2 /\ attempts[j1] > 0

\* C4: no job is handed to the send step (marker written, transport called)
\* while its processAfter is still in the future
C4_NotBeforeProcessAfter ==
  /\ ~tooEarly
  /\ \A w \in Workers : wpc[w] \in {"mark", "send"} => wjob[w].processAfter = 0

C4_Witness ==
  \E w \in Workers :
    /\ wpc[w] = "send"
    /\ wjob[w].retryCount = 0
    /\ meta[wjob[w].id].processAfter > 0

\* C5: a job enqueued with a processAfter in the future is eventually handed
\* to the send step, when time advances, the store answers and the workers
\* keep polling
C5_DelayedEventuallySent ==
  \A id \in JobIds :
    (id \in accepted /\ meta[id].processAfter > 0) ~> (attempts[id] > 0)

C5_Witness ==
  \E id \in JobIds : meta[id].processAfter > 0 /\ results[id].set /\ faults = 0

\* C6: a job whose every send fails is handed to the send step exactly
\* maxRetries + 1 times, and only then is it off the lists for good
C6_ExactlyMaxRetriesPlusOne ==
  \A id \in accepted :
    id \notin sent =>
      /\ attempts[id] <= meta[id].maxRetries + 1
      /\ (Gone(id) /\ attempts[id] >= 1) => attempts[id] = meta[id].maxRetries + 1

\* C7: after its k-th failure a job's processAfter is the time of the failure
\* plus 2^k seconds, and its next attempt is not before that time
C7_ExponentialBackoff ==
  /\ ~retryEarly
  /\ \A q \in QueueNames : \A i \in 1..Len(queues[q]) :
       LET job == queues[q][i] IN
       (job.retryCount >= 1 /\ job.processAfter > 0) =>
          job.processAfter + job.lastAttemptedAt = 2 ^ job.retryCount
  /\ \A w \in Workers :
       (wpc[w] \in {"mark", "send"} /\ wjob[w].retryCount >= 1) =>
          wjob[w].lastAttemptedAt >= 2 ^ wjob[w].retryCount

C7_Witness ==
  \E w \in Workers : wpc[w] = "send" /\ wjob[w].retryCount = MaxRetryDepth

\* C8: a job whose enqueue returned without error stays in the system, on a
\* list or with a worker, until it has been handed to the send step
C8_NoLossBeforeAttempt ==
  \A id \in accepted : attempts[id] = 0 => (InQueues(id) \/ Held(id))

\* a read of results:email:<id>: the record's successful and error values
ReadResult(id) ==
  IF results[id].set /\ results[id].ttl > 0
    THEN [found |-> TRUE, successful |-> results[id].successful, error |-> results[id].error]
    ELSE [found |-> FALSE, successful |-> FALSE, error |-> ""]

\* C14 (result lookup): a Job Result is written to live 24 hours, and once a
\* job is Sent or Dropped with its Job Result written no step of any worker
\* changes what a read of results:email:<id> returns
C14_ResultStable ==
  /\ [](\A id \in JobIds : results[id].set => results[id].ttl = 24 * 60 * 60)
  /\ [][\A id \in JobIds :
          (results[id].set /\ (results[id].successful \/ Gone(id))) =>
             ReadResult(id)' = ReadResult(id)]_vars

\* a job was dropped after its retries, with its Job Result written
C14_Witness ==
  \E id \in JobIds :
    /\ Gone(id)
    /\ meta[id].maxRetries >= 1
    /\ attempts[id] = meta[id].maxRetries + 1
    /\ ReadResult(id).found
    /\ ~ReadResult(id).successful

GetPriorityQueue(priority) ==
  CASE priority = 0 -> "queue:email:urgent"
    [] priority = 1 -> "queue:email:high"
    [] priority = 2 -> "queue:email:normal"
    [] priority = 3 -> "queue:email:low"
    [] OTHER -> "queue:email:normal"

\* C16 (routing by priority): a job of priority 0..3 is on the list named
\* for its tier (urgent, high, normal, low) and on no other, and that list
\* is one of those the workers' BRPop scans
C16_RoutedByTier ==
  \A q \in QueueNames : \A i \in 1..Len(queues[q]) :
    queues[q][i].priority \in 0..3 =>
      /\ q = GetPriorityQueue(queues[q][i].priority)
      /\ \E n \in 1..Len(PopOrder) : PopOrder[n] = GetPriorityQueue(queues[q][i].priority)

\* C17 (enqueue keeps what is set): a job on a list bears the id it was
\* accepted under and the createdAt of its first enqueue, also after it was
\* enqueued again for a retry
C17_EnqueueKeepsSetFields ==
  \A q \in QueueNames : \A i \in 1..Len(queues[q]) :
    /\ queues[q][i].id \in accepted
    /\ queues[q][i].createdAt = 1

\* C18 (queued retry invariant): every job on a list has
\* retryCount <= maxRetries
C18_QueuedRetryBound ==
  \A q \in QueueNames : \A i \in 1..Len(queues[q]) :
    queues[q][i].retryCount <= queues[q][i].maxRetries

\* a job is queued for its last retry
C18_Witness ==
  \E q \in QueueNames : \E i \in 1..Len(queues[q]) :
    /\ queues[q][i].retryCount = queues[q][i].maxRetries
    /\ queues[q][i].maxRetries = MaxRetryDepth

\* C19 (cooperative shutdown): once Stop has closed stopCh every worker
\* goroutine returns, and none begins more than one BRPop after the close
C19_ShutdownTerminates ==
  /\ [](\A w \in Workers : afterStop[w] <= 1)
  /\ [](stopCh = "closed" => <>(\A w \in Workers : wpc[w] = "done"))

\* a worker has begun a BRPop after the close and has returned, and Stop is
\* through
C19_Witness ==
  /\ \E w \in Workers : afterStop[w] = 1 /\ wpc[w] = "done"
  /\ ~running
  /\ stopCh = "closed"

\* C20 (OTP-gated password reset): ResetPassword changes the password
\* only when the code submitted is the one saved for that email, inside its
\* life and not used before, so that one saved code changes a password at
\* most once; a wrong code, an expired code and a code saved for another
\* email change nothing
C20_ResetGatedByOTP ==
  /\ (otpRet.op = "reset" /\ otpRet.outcome = "changed") => otpRet.match
  /\ \A i \in Identifiers : resets[i] <= 1

\* the same for runs in which calls do not overlap and the store does not
\* fail (holds: diagnostic)
C20_ResetGatedByOTPSequential == (~overlap /\ otpErrs = 0) => C20_ResetGatedByOTP

\* C21 (priority per poll): whenever the BRPop of a worker returns a job
\* taken from a list, every list that comes before it in the order of the
\* keys was empty at the instant of that pop, whatever the other workers and
\* the enqueuers do
C21_PriorityPerPoll ==
  [][\A w \in Workers :
       (wpc[w] = "poll" /\ wpc'[w] \in {"requeue", "mark"}) =>
         \A i \in 1..Len(PopOrder) :
           i < PopRank(wqueue'[w]) => queues[PopOrder[i]] = <<>>]_vars

\* a worker holds a job popped from the low list while the other worker
\* holds one popped from the high list
C21_Witness ==
  \E w1 \in Workers, w2 \in Workers :
    /\ wqueue[w1] = EmailLowPriorityQueue
    /\ wqueue[w2] = EmailHighPriorityQueue
    /\ wjob[w1].id # 0
    /\ wjob[w2].id # 0

\* a worker puts a delayed job back and the store takes the push
Deferred(w) == wpc[w] = "requeue" /\ wpc'[w] # "requeue" /\ faults' = faults

\* what a deferral leaves alone: the other lists, the markers, the results,
\* the transport, and the fields of the job as they are in the list
DeferralFrame(w) ==
  /\ \A q \in QueueNames \ {wqueue[w]} : queues'[q] = queues[q]
  /\ processing' = processing
  /\ results' = results
  /\ sent' = sent
  /\ attempts' = attempts
  /\ \E i \in 1..Len(queues'[wqueue[w]]) : queues'[wqueue[w]][i] = wjob[w]
  /\ Len(queues'[wqueue[w]]) = Len(queues[wqueue[w]]) + 1

\* C22 (deferral is a no-op on the job): a popped job whose processAfter is
\* still in the future goes back onto the list it was popped from, behind
\* the jobs already waiting in that list (the end the pops do not take from),
\* and nothing else changes: no marker, no result, no call of the transport,
\* the job's retryCount, priority, id and processAfter as they were
C22_DeferralNoOp ==
  [][\A w \in Workers :
       Deferred(w) =>
         /\ queues'[wqueue[w]] = LPush(queues[wqueue[w]], wjob[w])
         /\ DeferralFrame(w)]_vars

\* the same with the job put back at the end the pops take from, ahead of
\* the jobs waiting in that list (holds: diagnostic)
C22_DeferralNoOpAtPopEnd ==
  [][\A w \in Workers :
       Deferred(w) =>
         /\ RPopped(queues'[wqueue[w]]) = wjob[w]
         /\ RPopRest(queues'[wqueue[w]]) = queues[wqueue[w]]
         /\ DeferralFrame(w)]_vars

\* a worker has claimed a job: the marker is written and the call has not
\* returned
Claimed(w) == wpc[w] \in {"send", "result", "cleanup", "retry"}

\* the call of ProcessEmailQueue that claimed a job returns
Returns(w) == Claimed(w) /\ wpc'[w] \in {"poll", "pause", "done"}

\* the result of this attempt is stored, the marker is gone and the retry
\* rule is applied, as the call returns
Finalized(w) ==
  LET job == wjob[w]
      q == QueueFor(job.priority)
  IN
  /\ wpc[w] \in {"cleanup", "retry"}
  /\ results'[job.id].set
  /\ results'[job.id].successful = wresult[w].successful
  /\ processing'[job.id] = 0
  /\ NeedsRetry(wresult[w], job) =>
       \E i \in 1..Len(queues'[q]) :
         /\ queues'[q][i].id = job.id
         /\ queues'[q][i].retryCount = job.retryCount + 1

\* C23 (finalize always executes): for every job a worker has claimed,
\* whatever the send step gave, the worker has written the Job Result,
\* deleted the Processing Marker and applied the retry rule (re-enqueue when
\* failed and retryCount < maxRetries) when it goes on to its next poll
C23_FinalizeAlways ==
  [][\A w \in Workers : Returns(w) => Finalized(w)]_vars

\* the same as long as the store has answered every call (holds: diagnostic)
C23_FinalizeAlwaysNoStoreError ==
  [][\A w \in Workers :
       (Returns(w) /\ faults' = MaxQueueStoreErrors) => Finalized(w)]_vars

\* a worker is about to put the job back for a retry
InRetry(id) == \E w \in Workers : wpc[w] = "retry" /\ wjob[w].id = id

MarkerDue(id) ==
  \E w \in Workers : wjob[w].id = id /\ wpc[w] \in {"send", "result", "cleanup"}

Orphan(w) == wpc[w] = "crashed" /\ wjob[w].id # 0

\* C26 (crash window): when a worker stops for good after popping a job and
\* before writing its result, that job is never again in any list, no other
\* worker ever holds it, and no worker sends it; the lapse of its Processing
\* Marker puts nothing back
C26_CrashLosesJob ==
  /\ [](\A w \in Workers :
          Orphan(w) =>
            /\ ~InQueues(wjob[w].id)
            /\ \A v \in Workers \ {w} : wjob[v].id # wjob[w].id)
  /\ [][\A w \in Workers :
          Orphan(w) =>
            /\ Orphan(w)'
            /\ wjob'[w].id = wjob[w].id
            /\ attempts'[wjob[w].id] = attempts[wjob[w].id]
            /\ (wjob[w].id \in sent') <=> (wjob[w].id \in sent)]_vars

\* a worker crashed after it had written the marker, the marker has lapsed,
\* no result is stored, and the other worker has gone on to send another job
C26_Witness ==
  \E w \in Workers, id2 \in JobIds :
    /\ Orphan(w)
    /\ attempts[wjob[w].id] >= 1
    /\ processing[wjob[w].id] = 0
    /\ ~results[wjob[w].id].set
    /\ id2 # wjob[w].id
    /\ id2 \in sent

\* the call returns with the result of the attempt stored and, for a failed
\* attempt with retries left, the job back in its list
Completed(w) ==
  LET job == wjob[w]
      q == QueueFor(job.priority)
  IN
  /\ wpc[w] \in {"cleanup", "retry"}
  /\ results'[job.id].set
  /\ results'[job.id].successful = wresult[w].successful
  /\ NeedsRetry(wresult[w], job) =>
       \E i \in 1..Len(queues'[q]) : queues'[q][i].id = job.id

\* C27 (in-flight processing is not preempted by shutdown): no worker exits
\* while it holds a claimed job; a job that a worker has claimed when stopCh
\* is closed has its Job Result written, and is re-enqueued if it failed with
\* retries left, before that worker exits
C27_NoPreemption ==
  /\ [](\A w \in Workers : wpc[w] = "done" => wjob[w].id = 0)
  /\ [][\A w \in Workers : Claimed(w) => wpc'[w] # "done" \/ Completed(w)]_vars
  /\ [][\A w \in Workers :
          (Returns(w) /\ stopCh = "closed") => Completed(w)]_vars

\* the same as long as the store has answered every call (holds: diagnostic)
C27_NoPreemptionNoStoreError ==
  /\ [](\A w \in Workers : wpc[w] = "done" => wjob[w].id = 0)
  /\ [][\A w \in Workers :
          (Returns(w) /\ stopCh = "closed" /\ faults' = MaxQueueStoreErrors)
            => Completed(w)]_vars

\* the places a job id is at: entries of the lists and workers holding it
Copies(id) ==
  Cardinality({<<q, i>> \in QueueNames \X (1..MaxJobs) :
                 i <= Len(queues[q]) /\ queues[q][i].id = id})
  + Cardinality({w \in Workers : wjob[w].id = id})

\* C28 (exclusive claim): under any interleaving of the workers no job id is
\* held by two workers at the same time, nor held by one while it is in a
\* list, and a job is handed to the send step at most once per attempt: at
\* most retryCount + 1 times in all
C28_ExclusiveClaim ==
  \A id \in JobIds :
    /\ \A w1 \in Workers, w2 \in Workers :
         (w1 # w2 /\ wjob[w1].id = id) => wjob[w2].id # id
    /\ Copies(id) <= 1
    /\ \A q \in QueueNames : \A i \in 1..Len(queues[q]) :
         queues[q][i].id = id => attempts[id] <= queues[q][i].retryCount
    /\ \A w \in Workers :
         wjob[w].id = id => attempts[id] <= wjob[w].retryCount + 1
    /\ attempts[id] <= MaxMaxRetries + 1

\* both workers are in the send step at once, each with a job of its own,
\* one of them on the second attempt of its job
C28_Witness ==
  \E w1 \in Workers, w2 \in Workers :
    /\ w1 # w2
    /\ wpc[w1] = "send"
    /\ wpc[w2] = "send"
    /\ wjob[w1].id # wjob[w2].id
    /\ wjob[w1].retryCount = 1
    /\ attempts[wjob[w1].id] = 2

\* the worker loops that have been launched and have not returned
LiveLoops == {w \in Workers : wpc[w] \notin {"none", "done"}}

\* C29 (fixed-size pool): whatever the sequence of Start and Stop calls, the
\* number of live worker loops never exceeds workerCount; Start while
\* running launches no worker, Stop while not running does nothing, and
\* stopCh is closed only while it is open, so at most once per Start
C29_FixedPool ==
  /\ [](wg <= WorkerCount /\ wg = Cardinality(LiveLoops))
  /\ [](~running => wg = 0)
  /\ [][running => wg' <= wg]_vars
  /\ [][~running => (stopCh' = stopCh \/ (running' /\ stopCh' = "open"))]_vars
  /\ [][(stopCh' = "closed" /\ stopCh # "closed") => (running /\ stopCh = "open")]_vars

\* the worker has been started, stopped and started again: workerCount
\* loops have just been launched, after a job was handed to the send step
C29_Witness ==
  /\ running
  /\ wg = WorkerCount
  /\ \A w \in Workers : wpc[w] = "start"
  /\ \E id \in JobIds : attempts[id] > 0

\* the code a pair has in the store: "nil" when its key is absent or expired
LiveCode(p) ==
  IF OTPLive(otpStore[OTPKey(p[1], p[2])]) THEN otpStore[OTPKey(p[1], p[2])].code
  ELSE "nil"

\* the step is a SaveOTP, a VerifyOTP (its Get, or the Del of a call made
\* for the pair) or an InvalidateOTP on the pair p
OnPair(p) ==
  \E c \in OTPClients :
    \/ \E o \in Codes : SaveOTP(c, p[1], p[2], o)
    \/ \E o \in Codes : VerifyOTPGet(c, p[1], p[2], o)
    \/ VerifyOTPDel(c) /\ otpCall[c].key = OTPKey(p[1], p[2])
    \/ InvalidateOTP(c, p[1], p[2])

\* C30 (scope of an OTP): distinct pairs (identifier, type) never share a
\* store key, a code saved for (id, p1) is not under the key of (id, p2) for
\* p2 # p1, and SaveOTP, VerifyOTP and InvalidateOTP on one pair leave the
\* live code of every other pair as it was
C30_ScopedByPair ==
  /\ [](\A p \in ScopePairs, r \in ScopePairs :
          p # r => OTPKey(p[1], p[2]) # OTPKey(r[1], r[2]))
  /\ [][\A p \in ScopePairs, r \in ScopePairs :
          (p # r /\ OnPair(p)) => LiveCode(r)' = LiveCode(r)]_vars

\* the same for the pairs that have the identifier in common, and for the
\* pairs whose keys differ (holds: diagnostic)
C30_ScopedByKey ==
  /\ [](\A p \in ScopePairs, r \in ScopePairs :
          (p # r /\ p[1] = r[1]) => OTPKey(p[1], p[2]) # OTPKey(r[1], r[2]))
  /\ [][\A p \in ScopePairs, r \in ScopePairs :
          (OTPKey(p[1], p[2]) # OTPKey(r[1], r[2]) /\ OnPair(p))
            => LiveCode(r)' = LiveCode(r)]_vars

\* C31 (an empty poll is not an error): a BRPop that finds every list empty
\* returns "no job" with no error, unless the store fails, and changes
\* nothing in the store; a BRPop that has taken no item returns an error only
\* when the store fails
C31_EmptyPollNoError ==
  [][\A w \in Workers :
       Poll(w) =>
         /\ BRPopIndex(queues) = 0 =>
              /\ queues' = queues
              /\ processing' = processing
              /\ results' = results
              /\ faults' = faults => (wpc'[w] = Select /\ wake'[w] = wake[w])
         /\ (wpc'[w] = "pause" /\ queues' = queues) => faults' < faults]_vars

\* a worker has polled, nothing was ever enqueued, the store has answered and
\* both workers are back at their select, about to poll again
C31_Witness ==
  /\ polled
  /\ nextId = 1
  /\ faults = MaxQueueStoreErrors
  /\ \A w \in Workers : wpc[w] = "poll" /\ wake[w] = 0

\* the BRPop of worker w returns an item that does not deserialize
PopsUndecodable(w) ==
  /\ Poll(w)
  /\ faults' = faults
  /\ BRPopIndex(queues) # 0
  /\ RPopped(queues[PopOrder[BRPopIndex(queues)]]) = Undecodable

\* C32 (a payload that fails to deserialize is fatal for that poll): the
\* call returns an error to the worker, the popped item is gone from its
\* list and is pushed back onto no list, and no Processing Marker and no Job
\* Result is written for it; no worker ever holds it as a job
C32_UndecodableDropped ==
  /\ [](\A w \in Workers : wjob[w] # Undecodable)
  /\ [][\A w \in Workers :
          PopsUndecodable(w) =>
            /\ wpc'[w] = "pause"
            /\ wake'[w] = ErrorPause
            /\ Cardinality(Foreign') = Cardinality(Foreign) - 1
            /\ \A q \in QueueNames : Len(queues'[q]) <= Len(queues[q])
            /\ processing' = processing
            /\ results' = results
            /\ attempts' = attempts]_vars
  /\ [][\A w \in Workers :
          (WorkerStep(w) \/ Resume(w)) => Cardinality(Foreign') <= Cardinality(Foreign)]_vars

\* a worker pauses after an error with the store's answers all given, the
\* undecodable item is in no list any more, and a job that was queued behind
\* it waits in its list
C32_Witness ==
  /\ faults = MaxQueueStoreErrors
  /\ \E w \in Workers : wpc[w] = "pause"
  /\ Foreign = {}
  /\ \E id \in JobIds : InQueues(id)

\* C33: for every number of digits from 1 on that the powers of ten are
\* computed for, and every draw, GenerateOTP returns exactly that many decimal
\* characters, the first not "0": a value in [10^(digits-1), 10^digits - 1]
C33_ExactDigits ==
  gen.digits >= 1 =>
    /\ Len(gen.otp) = gen.digits
    /\ \A i \in 1..Len(gen.otp) : \E d \in 1..10 : DecimalChars[d] = gen.otp[i]
    /\ gen.otp[1] # "0"
    /\ Atoi(gen.otp) >= pow10(gen.digits - 1)
    /\ Atoi(gen.otp) <= pow10(gen.digits) - 1

\* the largest draw of a GenerateOTP(6)
C33_Witness ==
  /\ gen.digits = OTPDigits
  /\ gen.otp = <<"9", "9", "9", "9", "9", "9">>

\* C34: a freshly saved code survives a concurrent verification of the
\* previous code: when a SaveOTP has written a new code between the Get and the
\* Del of a VerifyOTP that matched the old one, the new code is still in the
\* store after that VerifyOTP has returned
C34_SaveSurvivesVerify ==
  [][\A c \in OTPClients :
       (/\ VerifyOTPDel(c)
        /\ otpCall[c].stale
        /\ OTPLive(otpStore[otpCall[c].key])
        /\ otpStore[otpCall[c].key].code # otpCall[c].code)
       => otpStore'[otpCall[c].key] = otpStore[otpCall[c].key]]_vars

\* of a job that is in no list and in no worker's hands: its last attempt is
\* recorded, and it was sent, or it failed with no retry left
Terminal(id) ==
  /\ results[id].set
  /\ \/ results[id].successful /\ id \in sent
     \/ ~results[id].successful /\ attempts[id] > meta[id].maxRetries

\* C35 (job conservation): as long as no store operation has failed (and no
\* worker crashes), every accepted job id is in exactly one place: one copy in
\* one list, or held by one worker between its pop and the end of its
\* processing, or in neither and terminal (sent or dropped)
C35_JobConservation ==
  faults = MaxQueueStoreErrors =>
    \A id \in JobIds :
      /\ id \in accepted =>
           \/ Copies(id) = 1
           \/ Copies(id) = 0 /\ Terminal(id)
      /\ id \notin accepted => Copies(id) = 0

\* one job was dropped after its retry failed, the other is back in a list
\* for its retry while no store operation has failed
C35_Witness ==
  /\ faults = MaxQueueStoreErrors
  /\ \E a \in accepted, b \in accepted :
       /\ Copies(a) = 0 /\ ~results[a].successful /\ attempts[a] = 2
       /\ InQueues(b) /\ attempts[b] = 1 /\ ~Held(b)

\* a job that is due waits in the list the worker's job came from, or in a less
\* urgent one
DueBehind(w) ==
  \E q \in QueueNames : \E i \in 1..Len(queues[q]) :
    /\ ~IsDelayed(queues[q][i])
    /\ PopRank(q) >= PopRank(wqueue[w])

\* the job the next BRPop takes from these lists
NextPop(qs) == RPopped(qs[PopOrder[BRPopIndex(qs)]])

\* C36 (a job that is not yet due does not hold back due jobs): with a single
\* worker, when the worker puts back a job D whose processAfter is in the
\* future while a due job K waits in the same tier or in a less urgent one,
\* its next pop does not take D again: the worker does not keep re-popping D
\* until D is due, and K reaches the send step before that
C36_DueNotHeldBack ==
  [][(Requeue(Solo) /\ faults' = faults /\ DueBehind(Solo))
       => NextPop(queues').id # wjob[Solo].id]_vars

\* the same for a due job in the very list the worker's job came from
\* (violated as well: diagnostic)
C36_DueNotHeldBackSameTier ==
  [][(/\ Requeue(Solo) /\ faults' = faults
      /\ \E i \in 1..Len(queues[wqueue[Solo]]) : ~IsDelayed(queues[wqueue[Solo]][i]))
       => NextPop(queues').id # wjob[Solo].id]_vars

\* C37 (Stop is a barrier): Stop returns only after every worker loop that the
\* matching Start has launched has exited, no worker takes a step (no pop, no
\* send, no write to the store) between the return of Stop and the next
\* Start, and a Stop that has closed stopCh always returns, whatever Start
\* calls arrive meanwhile
C37_StopBarrier ==
  /\ [][StopWait => \A w \in Workers : wpc[w] = "done"]_vars
  /\ [](~running => \A w \in Workers : wpc[w] \in {"none", "done"})
  /\ [][\A w \in Workers : (Begin(w) \/ WorkerStep(w) \/ Resume(w)) => running]_vars
  /\ [][(stopPc = "wait" /\ stopPc' = "wait") => (running' /\ stopCh' = "closed")]_vars
  /\ [](stopPc = "wait" => <>(stopPc = "idle" /\ ~running))

\* Stop has returned after both workers have exited, one of them after it
\* had sent a job
C37_Witness ==
  /\ stopPc = "idle"
  /\ ~running
  /\ stopCh = "closed"
  /\ wg = 0
  /\ sent # {}
  /\ \A w \in Workers : wpc[w] = "done"

\* C38 (issuing an OTP is all-or-nothing): whenever GenerateAndSendOTP returns
\* an error (empty identifier, unknown or unimplemented type, store failure,
\* enqueue failure) the store holds no code written by that call: the store is
\* as it was for that identifier and type
C38_AllOrNothing ==
  [][\A c \in OTPClients, i \in SendIdentifiers, t \in SendTypes, o \in Codes :
       (GenerateAndSendOTP(c, i, t, o) /\ otpRet'.outcome = "error")
         => \/ otpStore' = otpStore
            \/ otpStore'[OTPKey(i, t)] # [code |-> o, ttl |-> OTPExpiryTime]]_vars

\* the same for the errors returned before SaveOTP has succeeded: the empty
\* identifier and the failed Set (holds: diagnostic)
C38_NothingBeforeSave ==
  [][\A c \in OTPClients, i \in SendIdentifiers, t \in SendTypes, o \in Codes :
       (GenerateAndSendOTP(c, i, t, o) /\ otpRet'.fail \in {"identifier", "set"})
         => otpStore' = otpStore]_vars

\* C39 (a worker survives poll errors): a worker whose poll has returned an
\* error (a store failure, a payload that does not deserialize) does not exit:
\* it pauses for one second and then polls again, and it leaves the pause for
\* its exit if and only if stopCh is closed; so as long as Stop has not been
\* called all workerCount loops are alive, whatever errors there were
C39_SurvivesPollErrors ==
  /\ [][\A w \in Workers :
          (wpc[w] # "pause" /\ wpc'[w] = "pause") =>
            /\ WorkerStep(w)
            /\ faults' < faults \/ PopsUndecodable(w)
            /\ wake'[w] = ErrorPause]_vars
  /\ [][\A w \in Workers :
          (wpc[w] = "pause" /\ wpc'[w] # "pause") =>
            \/ stopCh = "closed" /\ wpc'[w] = "done"
            \/ stopCh = "open" /\ wake[w] = 0 /\ wpc'[w] = "poll"]_vars
  /\ [][\A w \in Workers :
          (Poll(w) /\ (faults' < faults \/ PopsUndecodable(w))) =>
            (wpc'[w] = "pause" /\ wake'[w] = ErrorPause)]_vars
  /\ []((running /\ stopCh = "open") =>
          (wg = WorkerCount /\ \A w \in Workers : wpc[w] \notin {"none", "done"}))
  /\ \A w \in Workers : [](wpc[w] = "pause" => <>(wpc[w] \in {"poll", "done"}))

\* the poll of a worker has failed on the store, the worker has been through
\* its pause, and both workers are polling
C39_Witness ==
  /\ running /\ stopCh = "open"
  /\ faults = 0
  /\ Foreign = {}
  /\ nextId = 1
  /\ \A w \in Workers : wpc[w] = "poll" /\ wake[w] = 0

====
